---------------------------- MODULE Spec2Model ----------------------------
(***************************************************************************)
(* A model of the proximal-optimize crate: the coordinate hill-climbing    *)
(* optimizer of src/src/lib.rs (ProximalOptimizer: its setters and the     *)
(* optimize loop) and the NesterovStepper of src/src/utils.rs.             *)
(*                                                                         *)
(* f64 values are modelled as fixed-point numbers: an integer v stands for *)
(* v / Unit.  Sums are exact; a product is rounded to the grid (toward     *)
(* zero, symmetrically in the sign, as an f64 product is rounded           *)
(* symmetrically in the sign).  A fitness is either a number or NaN, the   *)
(* one value of the objective's output type that is not comparable with    *)
(* itself.                                                                 *)
(***************************************************************************)
EXTENDS Integers, Sequences, FiniteSets, TLC

\* ------------------------------------------------------------------ bounds

\* Fractional bits of the fixed-point grid of the optimizer's numbers.
FracBits == 3
\* The largest dimension count ProximalOptimizer::new is explored with.
MaxDim == 2
\* The largest iteration budget optimize is explored with.
MaxIter == 2
\* Fractional bits of the fixed-point grid of the stepper's numbers.
NesBits == 11
\* The number of consecutive omega() calls explored.
MaxOmegaCalls == 90

Unit == 2 ^ FracBits

\* ------------------------------------------------------- f64 arithmetic

Abs(a) == IF a < 0 THEN -a ELSE a

Sign(a) == IF a < 0 THEN -1 ELSE 1

\* a * b on the fixed-point grid.
Mul(a, b) == Sign(a) * Sign(b) * ((Abs(a) * Abs(b)) \div Unit)

\* -1.0
MinusOne == -Unit

\* ---------------------------------------------------- program constants

DEFAULT_EXPANSION_RATIO == (3 * Unit) \div 2

DEFAULT_COMPRESSION_RATIO == Unit \div 2

DEFAULT_INITIAL_STEP_SIZE == Unit

DEFAULT_NUM_ITERATIONS == 100

\* Parameters::default()
ParametersDefault ==
  [expansion_ratio   |-> DEFAULT_EXPANSION_RATIO,
   compression_ratio |-> DEFAULT_COMPRESSION_RATIO,
   step_size         |-> DEFAULT_INITIAL_STEP_SIZE]

\* ----------------------------------------------------------- the inputs

\* Arguments the callers pass to the step-size setters.
StepVals == {-Unit, Unit \div 2}

\* Arguments the callers pass to the ratio setters (the setters take any f64).
RatioVals == {0, 2 * Unit}

\* Arguments of iterations().
IterVals == 0..MaxIter

\* Coordinates of the start vectors.
StartVals == {0, 2 * Unit}

\* The sequences over S of a length up to n in which the entries two places
\* apart agree: every sequence of a length up to 2, and the uniform and the
\* alternating ones of each greater length.
SeqsUpTo(S, n) ==
  UNION {{s \in [1..k -> S] : \A i \in 3..k : s[i] = s[i - 2]} : k \in 0..n}

\* Arguments of the per-dimension setters: of every length up to one more
\* than any optimizer has dimensions.
StepSeqs == SeqsUpTo(StepVals, MaxDim + 1)

RatioSeqs == SeqsUpTo(RatioVals, MaxDim + 1)

\* The start vectors: the same coordinate in every dimension, of every length
\* up to one more than any optimizer has dimensions.
Starts == {[i \in 1..k |-> v] : k \in 0..(MaxDim + 1), v \in StartVals}

\* The objectives the callers pass to optimize.
Objectives == {"parabola", "plateau", "line"}

\* A fitness: a number, or NaN.
Num(v) == [nan |-> FALSE, v |-> v]

NaN == [nan |-> TRUE, v |-> 0]

RECURSIVE SumSeq(_)
SumSeq(s) == IF s = <<>> THEN 0 ELSE Head(s) + SumSeq(Tail(s))

\* The shifted parabola of examples/parabola.rs, (x - dx)^2 + (y - dy)^2 with
\* dx = 1.0 and dy = 0.5, over any number of dimensions.
Parabola(x) ==
  SumSeq([i \in 1..Len(x) |->
            LET c == IF i % 2 = 1 THEN Unit ELSE Unit \div 2
            IN  (x[i] - c) * (x[i] - c)])

\* func(x): the objective named fn at position x.
\*   parabola  the shifted parabola;
\*   plateau   0 where no coordinate is positive, NaN elsewhere;
\*   line      the sum of the coordinates.
Func(fn, x) ==
  CASE fn = "parabola" -> Num(Parabola(x))
    [] fn = "plateau"  -> IF \E i \in 1..Len(x) : x[i] > 0 THEN NaN ELSE Num(0)
    [] fn = "line"     -> Num(SumSeq(x))

\* a.partial_cmp(&b) of core::cmp::PartialOrd: "None" when incomparable.
PartialCmp(a, b) ==
  IF a.nan \/ b.nan THEN "None"
  ELSE IF a.v < b.v THEN "Less"
  ELSE IF a.v > b.v THEN "Greater"
  ELSE "Equal"

\* Ordering::reverse
Reverse(o) ==
  CASE o = "Less"    -> "Greater"
    [] o = "Greater" -> "Less"
    [] OTHER         -> o

\* ------------------------------------------------------------ the state

VARIABLES
  \* struct ProximalOptimizer
  self_parameters,    \* parameters: one Parameters record per dimension
  self_iterations,    \* iterations
  self_maximize,      \* maximize
  ret,                \* what the last setter returned: "" for (), "Ok", or
                      \* "ParameterLengthMismatch"
  pc,                 \* "idle", or where optimize stands: "loop", "trial",
                      \* "done" (returned, the caller holding the result)
  \* optimize's arguments and locals
  start, fn,          \* start, func
  start_fit, current_fit,
  parameters,         \* the clone of self.parameters
  current_pos, candidate,
  train_iteration,    \* iterations completed
  x_i,                \* the dimension under trial (1-based)
  result,             \* optimize's return value
  \* history of the call in progress
  evals,              \* how often func was invoked
  cand_evals,         \* how often func was invoked on a perturbed candidate
  iter_start_pos,     \* current_pos as the running iteration found it
  trials,             \* the trials of the running iteration, in order: the
                      \* dimension, its step, the candidate passed to func,
                      \* the fitness returned and the one it was compared with
  prev_result,        \* the result of the call before, when this call
                      \* follows it at once with the same start and func
  \* struct NesterovStepper
  t, accelerated,
  omegas              \* every omega() call, in order: t before it, t after
                      \* it and the value returned

optVars == <<self_parameters, self_iterations, self_maximize, ret, pc,
             start, fn, start_fit, current_fit, parameters, current_pos,
             candidate, train_iteration, x_i, result, evals, cand_evals,
             iter_start_pos, trials, prev_result>>

localVars == <<start, fn, start_fit, current_fit, parameters, current_pos,
               candidate, train_iteration, x_i, result, evals, cand_evals,
               iter_start_pos, trials, prev_result>>

nesVars == <<t, accelerated, omegas>>

vars == <<optVars, nesVars>>

\* get_num_parameters(): self.parameters.len(), which optimize's x_n =
\* start.len() equals once the length check has passed.
NumParameters == Len(self_parameters)

NoResult == [tag |-> "None", err |-> "", pos |-> <<>>]

Ok(pos) == [tag |-> "Ok", err |-> "", pos |-> pos]

Err(e) == [tag |-> "Err", err |-> e, pos |-> <<>>]

\* No optimize call is in progress.
NoLocals ==
  /\ start' = <<>> /\ fn' = "" /\ start_fit' = NaN /\ current_fit' = NaN
  /\ parameters' = <<>> /\ current_pos' = <<>> /\ candidate' = <<>>
  /\ train_iteration' = 0 /\ x_i' = 0 /\ result' = NoResult
  /\ evals' = 0 /\ cand_evals' = 0 /\ iter_start_pos' = <<>> /\ trials' = <<>>
  /\ prev_result' = NoResult

\* NesterovStepper::new(acc)
StepperNew(acc) == t = 2 ^ NesBits /\ accelerated = acc /\ omegas = <<>>

\* ProximalOptimizer::new(num_parameters)
OptimizerNew(num_parameters) ==
  /\ self_parameters = [i \in 1..num_parameters |-> ParametersDefault]
  /\ self_iterations = DEFAULT_NUM_ITERATIONS
  /\ self_maximize = FALSE
  /\ ret = ""
  /\ pc = "idle"
  /\ start = <<>> /\ fn = "" /\ start_fit = NaN /\ current_fit = NaN
  /\ parameters = <<>> /\ current_pos = <<>> /\ candidate = <<>>
  /\ train_iteration = 0 /\ x_i = 0 /\ result = NoResult
  /\ evals = 0 /\ cand_evals = 0 /\ iter_start_pos = <<>> /\ trials = <<>>
  /\ prev_result = NoResult

Init ==
  /\ \E num_parameters \in 0..MaxDim : OptimizerNew(num_parameters)
  /\ StepperNew(FALSE)

\* A method of the instance can be called: &mut self and &self exclude a
\* call while optimize runs.
Callable == pc = "idle"

\* ---------------------------------------------------------- the setters

\* self.parameters with field set to v[i] in every dimension i.
WithField(ps, field, v) ==
  [i \in 1..Len(ps) |-> [ps[i] EXCEPT ![field] = v[i]]]

\* What every setter leaves alone, and its return value.
Returns(r) ==
  /\ ret' = r
  /\ UNCHANGED <<pc, localVars, nesVars>>

\* maximize()
Maximize ==
  /\ Callable
  /\ self_maximize' = TRUE
  /\ UNCHANGED <<self_parameters, self_iterations>>
  /\ Returns("")

\* minimize()
Minimize ==
  /\ Callable
  /\ self_maximize' = FALSE
  /\ UNCHANGED <<self_parameters, self_iterations>>
  /\ Returns("")

\* iterations(iterations)
Iterations(iterations) ==
  /\ Callable
  /\ self_iterations' = iterations
  /\ UNCHANGED <<self_parameters, self_maximize>>
  /\ Returns("")

\* A setter of one value for every dimension: for param in
\* self.parameters.iter_mut() { param.<field> = value }
SetAll(field, value) ==
  /\ Callable
  /\ self_parameters' =
       WithField(self_parameters, field, [i \in 1..NumParameters |-> value])
  /\ UNCHANGED <<self_iterations, self_maximize>>
  /\ Returns("")

\* A setter of one value per dimension: the length check, then
\* param.<field> = values[i].
SetEach(field, values) ==
  /\ Callable
  /\ IF Len(values) # NumParameters
       THEN /\ UNCHANGED self_parameters
            /\ Returns("ParameterLengthMismatch")
       ELSE /\ self_parameters' = WithField(self_parameters, field, values)
            /\ Returns("Ok")
  /\ UNCHANGED <<self_iterations, self_maximize>>

\* initial_step_size(step_size)
InitialStepSize(step_size) == SetAll("step_size", step_size)

\* initial_step_sizes(step_sizes)
InitialStepSizes(step_sizes) ==
  SetEach("step_size", step_sizes)

\* step_expansion_ratio(step_expansion_ratio)
StepExpansionRatio(step_expansion_ratio) ==
  SetAll("compression_ratio", step_expansion_ratio)

\* step_expansion_ratios(step_expansion_ratio)
StepExpansionRatios(step_expansion_ratio) ==
  SetEach("expansion_ratio", step_expansion_ratio)

\* step_compression_ratio(step_compression_ratio)
StepCompressionRatio(step_compression_ratio) ==
  SetAll("compression_ratio", step_compression_ratio)

\* Mutant: step_decrease_ratios assigning the expansion ratio.
StepDecreaseRatiosAsExpansion(step_compression_ratios) ==
  SetEach("expansion_ratio", step_compression_ratios)

\* step_decrease_ratios(step_compression_ratios)
StepDecreaseRatios(step_compression_ratios) ==
  SetEach("compression_ratio", step_compression_ratios)

\* ------------------------------------------------------------- optimize

\* Mutant: the check of the start fitness left out.
StartUnorderableNever(fit) == FALSE

\* The start fitness has no ordering when compared with itself.
StartUnorderable(fit) == PartialCmp(fit, fit) = "None"

\* Mutant: the ordering never reversed, as if always maximizing.
CompareNoReverse(test_fit, cur_fit, maximize) == PartialCmp(test_fit, cur_fit)

\* let cmp = match test_fit.partial_cmp(&current_fit): the ordering, reversed
\* unless maximizing.
Compare(test_fit, cur_fit, maximize) ==
  LET o == PartialCmp(test_fit, cur_fit)
  IN  IF o = "None" THEN "None"
      ELSE IF ~maximize THEN Reverse(o) ELSE o

\* Mutant: the candidate built on current_pos, accepted moves included.
PerturbCurrent(cand, pos, i, step) == [pos EXCEPT ![i] = pos[i] + step]

\* candidate[x_i] = current_pos[x_i] + parameters[x_i].step_size
Perturb(cand, pos, i, step) == [cand EXCEPT ![i] = pos[i] + step]

\* match cmp: the step size of the dimension after its trial.  p is the
\* dimension's record in the clone, sp its record in self.parameters.
StepAfter(cmp, p, sp) ==
  CASE cmp \in {"Less", "None"} ->
         Mul(Mul(p.step_size, MinusOne), p.compression_ratio)
    [] cmp = "Greater" -> Mul(p.step_size, sp.expansion_ratio)
    [] cmp = "Equal"   -> Mul(p.step_size, sp.compression_ratio)

\* match cmp: current_pos[x_i] after the trial of candidate value cand_i.
PosAfter(cmp, pos_i, cand_i) == IF cmp = "Greater" THEN cand_i ELSE pos_i

\* Mutant: the trial's step size written to self.parameters, and to the
\* wrong field.
SelfCompressionFromStep(self_ps, ps) ==
  [i \in 1..Len(self_ps) |->
     [self_ps[i] EXCEPT !.compression_ratio = ps[i].step_size]]

\* Mutant: no clone, the trial's step sizes written to self.parameters.
SelfAliasedToClone(self_ps, ps) == ps

\* self.parameters after a trial: the step sizes are written to the clone
\* `parameters` (let mut parameters = self.parameters.clone()), never to self.
SelfAfterTrial(self_ps, ps) == self_ps

\* Mutant: the fitness of the final position compared with the start fitness.
FinalResultOfFinalPosition(cur_fit, st_fit, maximize, pos) ==
  LET final_cmp == PartialCmp(Func(fn, pos), st_fit)
  IN  IF \/ (final_cmp = "Greater" /\ maximize)
         \/ (final_cmp = "Less" /\ ~maximize)
        THEN Ok(pos)
        ELSE Err("SolutionNoBetter")

\* match (final_cmp, self.maximize)
FinalResult(cur_fit, st_fit, maximize, pos) ==
  LET final_cmp == PartialCmp(cur_fit, st_fit)
  IN  IF \/ (final_cmp = "Greater" /\ maximize)
         \/ (final_cmp = "Less" /\ ~maximize)
        THEN Ok(pos)
        ELSE Err("SolutionNoBetter")

\* optimize(start, func) up to the training loop.  The model follows a call
\* into the loop for iteration budgets up to MaxIter.
StartOptimize(s, f) ==
  /\ Callable \/ (pc = "done" /\ s = start /\ f = fn)
  /\ Len(s) # NumParameters \/ StartUnorderable(Func(f, s)) \/ self_iterations <= MaxIter
  /\ start' = s /\ fn' = f
  /\ prev_result' = IF pc = "done" THEN result ELSE NoResult
  /\ train_iteration' = 0 /\ x_i' = 0
  /\ iter_start_pos' = <<>> /\ trials' = <<>> /\ cand_evals' = 0
  /\ IF Len(s) # NumParameters
       THEN /\ result' = Err("ParameterLengthMismatch")
            /\ pc' = "done"
            /\ evals' = 0
            /\ start_fit' = NaN /\ current_fit' = NaN
            /\ parameters' = <<>> /\ current_pos' = <<>> /\ candidate' = <<>>
       ELSE /\ start_fit' = Func(f, s)
            /\ current_fit' = Func(f, s)
            /\ evals' = 2
            /\ IF StartUnorderable(Func(f, s))
                 THEN /\ result' = Err("StartUnorderable")
                      /\ pc' = "done"
                      /\ parameters' = <<>> /\ current_pos' = <<>>
                      /\ candidate' = <<>>
                 ELSE /\ result' = NoResult
                      /\ pc' = "loop"
                      /\ parameters' = self_parameters
                      /\ current_pos' = s
                      /\ candidate' = s
  /\ UNCHANGED <<self_parameters, self_iterations, self_maximize, ret, nesVars>>

\* The head of one pass of `for _train_iteration in 0..self.iterations`:
\* the fitness of the current position, and the candidate reset to it.
IterationBegin ==
  /\ pc = "loop"
  /\ train_iteration < self_iterations
  /\ current_fit' = Func(fn, current_pos)
  /\ evals' = evals + 1
  /\ candidate' = current_pos
  /\ iter_start_pos' = current_pos
  /\ trials' = <<>>
  /\ IF NumParameters = 0
       THEN pc' = "loop" /\ x_i' = 0 /\ train_iteration' = train_iteration + 1
       ELSE pc' = "trial" /\ x_i' = 1 /\ UNCHANGED train_iteration
  /\ UNCHANGED <<self_parameters, self_iterations, self_maximize, ret,
                 start, fn, start_fit, parameters, current_pos, result,
                 cand_evals, prev_result, nesVars>>

\* One pass of `for x_i in 0..NumParameters`: the trial of dimension x_i.
Trial ==
  /\ pc = "trial"
  /\ LET old_val  == candidate[x_i]
         cand     == Perturb(candidate, current_pos, x_i,
                             parameters[x_i].step_size)
         test_fit == Func(fn, cand)
         cmp      == Compare(test_fit, current_fit, self_maximize)
     IN  /\ parameters' =
              [parameters EXCEPT ![x_i].step_size =
                 StepAfter(cmp, parameters[x_i], self_parameters[x_i])]
         /\ current_pos' =
              [current_pos EXCEPT ![x_i] = PosAfter(cmp, @, cand[x_i])]
         /\ candidate' = [cand EXCEPT ![x_i] = old_val]
         /\ trials' = Append(trials,
              [i |-> x_i, step |-> parameters[x_i].step_size, cand |-> cand,
               test_fit |-> test_fit, against |-> current_fit])
  /\ self_parameters' = SelfAfterTrial(self_parameters, parameters')
  /\ evals' = evals + 1
  /\ cand_evals' = cand_evals + 1
  /\ IF x_i = NumParameters
       THEN pc' = "loop" /\ x_i' = 0 /\ train_iteration' = train_iteration + 1
       ELSE pc' = "trial" /\ x_i' = x_i + 1 /\ UNCHANGED train_iteration
  /\ UNCHANGED <<self_iterations, self_maximize, ret, start, fn, start_fit,
                 current_fit, result, iter_start_pos, prev_result, nesVars>>

\* After the loop: the comparison with the start fitness, and the return.
Finish ==
  /\ pc = "loop"
  /\ train_iteration >= self_iterations
  /\ result' = FinalResult(current_fit, start_fit, self_maximize, current_pos)
  /\ pc' = "done"
  /\ UNCHANGED <<self_parameters, self_iterations, self_maximize, ret,
                 start, fn, start_fit, current_fit, parameters, current_pos,
                 candidate, train_iteration, x_i, evals, cand_evals,
                 iter_start_pos, trials, prev_result, nesVars>>

\* The caller takes the Result and optimize's frame is gone: the instance
\* can be called again.
Return ==
  /\ pc = "done"
  /\ pc' = "idle"
  /\ NoLocals
  /\ UNCHANGED <<self_parameters, self_iterations, self_maximize, ret, nesVars>>

\* ------------------------------------------------------ NesterovStepper

NUnit == 2 ^ NesBits

\* The largest d with d * d <= n, for n = 4 * u * u + NUnit * NUnit: the root
\* lies in 2u .. 2u + NUnit, and (2u + d)^2 <= n is d * (4u + d) <= NUnit^2,
\* which keeps the products small.
SqrtOf4SqPlus1(u) ==
  LET D == {d \in 0..((NUnit \div 4) + 1) : d * (4 * u + d) <= NUnit * NUnit}
  IN  2 * u + (CHOOSE d \in D : \A e \in D : e <= d)

\* let t_ = 0.5 * (1.0 + (4.0 * self.t * self.t + 1.0).sqrt())
TNext(u) == (NUnit + SqrtOf4SqPlus1(u)) \div 2

\* Mutant: t updated whether or not the stepper is accelerated.
TAfterUnconditional(u, acc) == TNext(u)

\* self.t after omega()
TAfter(u, acc) == IF acc THEN TNext(u) ELSE u

\* Mutant: omega computed from the new t, (t_ - 1.0) / t_.
OmegaFromNewT(u, acc) ==
  IF acc THEN ((TNext(u) - NUnit) * NUnit) \div TNext(u) ELSE 0

\* What omega() returns: (self.t - 1.0) / t_, or 0.0
OmegaValue(u, acc) == IF acc THEN ((u - NUnit) * NUnit) \div TNext(u) ELSE 0

\* omega()
Omega ==
  /\ Len(omegas) < MaxOmegaCalls
  /\ t' = TAfter(t, accelerated)
  /\ omegas' = Append(omegas,
       [t |-> t, t_ |-> TAfter(t, accelerated), om |-> OmegaValue(t, accelerated)])
  /\ UNCHANGED <<accelerated, optVars>>

\* ------------------------------------------------- the specifications

Next ==
  \/ Maximize
  \/ Minimize
  \/ \E k \in IterVals : Iterations(k)
  \/ \E v \in StepVals : InitialStepSize(v)
  \/ \E v \in StepSeqs : InitialStepSizes(v)
  \/ \E r \in RatioVals : StepExpansionRatio(r)
  \/ \E r \in RatioSeqs : StepExpansionRatios(r)
  \/ \E r \in RatioVals : StepCompressionRatio(r)
  \/ \E r \in RatioSeqs : StepDecreaseRatios(r)
  \/ \E s \in Starts, f \in Objectives :
       StartOptimize(s, f)
  \/ IterationBegin
  \/ Trial
  \/ Finish
  \/ Return

\* The optimizer: any sequence of setter and optimize calls on one instance.
Spec == Init /\ [][Next]_vars

InitNesterov ==
  /\ OptimizerNew(0)
  /\ \E acc \in BOOLEAN : StepperNew(acc)

NextNesterov == Omega

\* One stepper, with or without acceleration, called again and again.
SpecNesterov == InitNesterov /\ [][NextNesterov]_vars

\* ------------------------------------------------------------ the claims

\* a is strictly better than b under the configured direction: strictly
\* greater when maximizing, strictly smaller when minimizing.
StrictlyBetter(a, b, maximize) ==
  /\ ~a.nan /\ ~b.nan
  /\ IF maximize THEN a.v > b.v ELSE a.v < b.v

\* a and b are equal fitness values.
SameFitness(a, b) == ~a.nan /\ ~b.nan /\ a.v = b.v

\* The call that has returned had a start vector of matching length with a
\* self-comparable fitness.
ReturnedFromLoop ==
  pc = "done" /\ Len(start) = NumParameters /\ ~Func(fn, start).nan

\* C1: optimize returns Ok(pos) if and only if the objective at the final
\* position pos is strictly better than at start under the configured
\* direction; in every other case it returns Err(SolutionNoBetter) and no
\* position.
C1_OkIffFinalPositionBetter ==
  ReturnedFromLoop =>
    IF StrictlyBetter(Func(fn, current_pos), Func(fn, start), self_maximize)
      THEN result = Ok(current_pos)
      ELSE result = Err("SolutionNoBetter")

\* C2: optimize fails before any iteration runs.  A start vector of the wrong
\* length returns Err(ParameterLengthMismatch) and the objective is never
\* invoked; otherwise a start fitness not comparable with itself returns
\* Err(StartUnorderable) and no perturbed candidate is evaluated, whatever the
\* iteration budget.
C2_FailsBeforeAnyIteration ==
  pc = "done" =>
    /\ Len(start) # NumParameters =>
         result = Err("ParameterLengthMismatch") /\ evals = 0
    /\ (Len(start) = NumParameters /\ Func(fn, start).nan) =>
         /\ result = Err("StartUnorderable")
         /\ cand_evals = 0 /\ train_iteration = 0 /\ trials = <<>>
         /\ current_pos = <<>>

\* A start of matching length and unorderable fitness was refused, on an
\* optimizer with dimensions and its default budget of 100 iterations.
C2_Witness ==
  /\ pc = "done" /\ result = Err("StartUnorderable")
  /\ NumParameters > 0 /\ self_iterations = DEFAULT_NUM_ITERATIONS

\* C3: after step_expansion_ratio(r) the expansion ratio of every dimension
\* is r, and every dimension's compression ratio and step size are as before
\* the call.
C3_ExpansionRatioSetsExpansion ==
  [][\A r \in RatioVals :
       StepExpansionRatio(r) =>
         \A i \in 1..NumParameters :
           /\ self_parameters'[i].expansion_ratio = r
           /\ self_parameters'[i].compression_ratio =
                self_parameters[i].compression_ratio
           /\ self_parameters'[i].step_size = self_parameters[i].step_size]_vars

Fields == {"expansion_ratio", "compression_ratio", "step_size"}

\* What a per-dimension setter of `field` called with v does.
PerDimensionContract(field, v) ==
  IF Len(v) # NumParameters
    THEN /\ ret' = "ParameterLengthMismatch"
         /\ UNCHANGED <<self_parameters, self_iterations, self_maximize>>
    ELSE /\ ret' = "Ok"
         /\ Len(self_parameters') = NumParameters
         /\ \A i \in 1..NumParameters :
              /\ self_parameters'[i][field] = v[i]
              /\ \A g \in Fields \ {field} :
                   self_parameters'[i][g] = self_parameters[i][g]

\* C4: each per-dimension setter called with a sequence of the wrong length
\* returns Err(ParameterLengthMismatch) and leaves every triple, the budget
\* and the direction as they were; called with one of matching length it
\* returns Ok, sets its own field of dimension i to element i and leaves the
\* other two fields of every dimension as they were.
C4_PerDimensionSetters ==
  [][/\ \A v \in StepSeqs :
          InitialStepSizes(v) => PerDimensionContract("step_size", v)
     /\ \A v \in RatioSeqs :
          /\ StepExpansionRatios(v) =>
               PerDimensionContract("expansion_ratio", v)
          /\ StepDecreaseRatios(v) =>
               PerDimensionContract("compression_ratio", v)]_vars

\* A per-dimension setter has given two dimensions different values.
C4_Witness ==
  /\ ret = "Ok" /\ NumParameters = 2
  /\ self_parameters[1].compression_ratio # self_parameters[2].compression_ratio
  /\ self_parameters[1].expansion_ratio = self_parameters[2].expansion_ratio

\* C5: optimize never changes the instance (dimension count, budget,
\* direction, every step size and ratio), whether it returns Ok or Err, so a
\* call that follows another with the same start and objective returns the
\* same result.
C5_OptimizeLeavesInstance ==
  /\ [][pc' \in {"loop", "trial", "done"} =>
          UNCHANGED <<self_parameters, self_iterations, self_maximize>>]_vars
  /\ []((pc = "done" /\ prev_result.tag # "None") => result = prev_result)

\* A repeated call has returned Ok, after a search that changed step sizes.
C5_Witness ==
  /\ pc = "done" /\ prev_result.tag = "Ok" /\ result.tag = "Ok"
  /\ \E i \in 1..NumParameters : parameters[i].step_size # self_parameters[i].step_size

RatiosPositive ==
  \A i \in 1..NumParameters :
    /\ self_parameters[i].expansion_ratio > 0
    /\ self_parameters[i].compression_ratio > 0

\* C6: in every state reachable from new(n) by setter calls with any
\* arguments and optimize calls, every dimension's expansion ratio and
\* compression ratio is strictly positive.
C6_RatiosAlwaysPositive == RatiosPositive

\* The step is a ratio setter called with a ratio that is not positive.
NonPositiveRatioCall ==
  \/ \E r \in RatioVals :
       r <= 0 /\ (StepExpansionRatio(r) \/ StepCompressionRatio(r))
  \/ \E v \in RatioSeqs :
       /\ \E i \in 1..Len(v) : v[i] <= 0
       /\ StepExpansionRatios(v) \/ StepDecreaseRatios(v)

\* C6, amended: the ratios are strictly positive after new(n), and stay so
\* through every optimize call and every setter call except a ratio setter
\* given a ratio that is not positive.
C6_RatiosPositiveUnlessSet ==
  /\ RatiosPositive
  /\ [][(RatiosPositive /\ ~NonPositiveRatioCall) => RatiosPositive']_vars

\* Ratio setters have stored positive ratios other than the defaults.
C6_Witness ==
  /\ NumParameters = 2 /\ RatiosPositive
  /\ \A i \in 1..NumParameters :
       /\ self_parameters[i].expansion_ratio = 2 * Unit
       /\ self_parameters[i].compression_ratio = 2 * Unit

\* C7: a stepper created with acceleration disabled returns 0 from every
\* call to omega(), however many, and its t stays at its initial value 1.
C7_DisabledReturnsZero ==
  ~accelerated =>
    /\ t = NUnit
    /\ \A k \in 1..Len(omegas) :
         omegas[k].om = 0 /\ omegas[k].t = NUnit /\ omegas[k].t_ = NUnit

\* A stepper without acceleration has been called several times.
C7_Witness == ~accelerated /\ Len(omegas) >= 3

\* What every call of an accelerated stepper does, whatever its number: t is
\* not negative and does not decrease, t' = 0.5 * (1 + sqrt(4 t^2 + 1)), and
\* the value returned is (t - 1) / t', at least 0 and strictly below 1.  The
\* first call finds t = 1 and returns 0.
AcceleratedCall(k) ==
  LET c == omegas[k]
  IN  /\ c.t >= 0 /\ c.t_ >= c.t
      /\ c.t_ = TNext(c.t)
      /\ c.om = ((c.t - NUnit) * NUnit) \div c.t_
      /\ 0 <= c.om /\ c.om < NUnit
      /\ k = 1 => (c.t = NUnit /\ c.om = 0)
      /\ k > 1 => c.t = omegas[k - 1].t_

\* Call k raised t, and returned more than the call before it.
StrictlyIncreasingAt(k) ==
  /\ omegas[k].t_ > omegas[k].t
  /\ k > 1 => omegas[k].om > omegas[k - 1].om

Resolved(k) == (k + 3) * (k + 3) <= NUnit

With(a, i, v) == [a EXCEPT ![i] = v]

\* C9: in every iteration and for every dimension i, the trial is applied as
\* follows.  test_fit strictly better than current_fit: current_pos[i]
\* becomes current_pos[i] + step_i and step_i is multiplied by the expansion
\* ratio of dimension i.  Strictly worse or incomparable: current_pos[i] is
\* unchanged and step_i becomes -step_i times the compression ratio.  Equal:
\* current_pos[i] is unchanged and step_i is multiplied by the compression
\* ratio.  No other dimension's position or step is changed.
C9_TrialOutcome ==
  [][pc = "trial" =>
       LET i        == x_i
           step     == parameters[i].step_size
           test_fit == Func(fn, With(iter_start_pos, i, current_pos[i] + step))
           exp      == self_parameters[i].expansion_ratio
           comp     == self_parameters[i].compression_ratio
       IN  /\ IF StrictlyBetter(test_fit, current_fit, self_maximize)
                THEN /\ current_pos'[i] = current_pos[i] + step
                     /\ parameters'[i].step_size = Mul(step, exp)
                ELSE IF SameFitness(test_fit, current_fit)
                THEN /\ current_pos'[i] = current_pos[i]
                     /\ parameters'[i].step_size = Mul(step, comp)
                ELSE /\ current_pos'[i] = current_pos[i]
                     /\ parameters'[i].step_size = Mul(-step, comp)
           /\ \A j \in (1..NumParameters) \ {i} :
                /\ current_pos'[j] = current_pos[j]
                /\ parameters'[j] = parameters[j]
           /\ Len(current_pos') = NumParameters /\ Len(parameters') = NumParameters]_vars

\* An iteration when minimizing in which the first dimension's trial was
\* strictly better and moved, and the second's was equal and did not.
C9_Witness ==
  /\ ~self_maximize /\ Len(trials) = 2
  /\ StrictlyBetter(trials[1].test_fit, trials[1].against, FALSE)
  /\ current_pos[1] = iter_start_pos[1] + trials[1].step
  /\ trials[1].step # 0
  /\ SameFitness(trials[2].test_fit, trials[2].against)
  /\ parameters[2].step_size # 0

\* The trials made so far in the running iteration agree with the position
\* the iteration started from.
TrialsOnIterationStart ==
  \A k \in 1..Len(trials) :
    LET r == trials[k]
    IN  /\ r.i = k
        /\ r.cand = With(iter_start_pos, k, iter_start_pos[k] + r.step)
        /\ r.test_fit = Func(fn, r.cand)
        /\ r.against = Func(fn, iter_start_pos)
        /\ current_pos[k] =
             IF StrictlyBetter(r.test_fit, r.against, self_maximize)
               THEN iter_start_pos[k] + r.step
               ELSE iter_start_pos[k]

\* C10: within one iteration, for every dimension i the candidate passed to
\* the objective is the position held at the start of the iteration, plus
\* step_i in dimension i, and its fitness is compared with the fitness of
\* that position, also when moves of dimensions before i were accepted in the
\* same iteration; every accepted move is in the position the next iteration
\* starts from.
C10_TrialsSeeIterationStart ==
  /\ [](pc \in {"loop", "trial"} =>
          /\ TrialsOnIterationStart
          /\ \A k \in (Len(trials) + 1)..Len(iter_start_pos) :
               current_pos[k] = iter_start_pos[k])
  /\ [][(pc = "loop" /\ pc' \in {"loop", "trial"}) =>
          /\ iter_start_pos' = current_pos
          /\ current_fit' = Func(fn, current_pos)]_vars

\* A second iteration starts from a first dimension's accepted move, and in
\* it a move of the first dimension was accepted before the second
\* dimension's trial.
C10_Witness ==
  /\ train_iteration >= 1 /\ Len(trials) = 2
  /\ iter_start_pos[1] # start[1]
  /\ current_pos[1] # iter_start_pos[1]

\* The position whose fitness the call that has returned evaluated last at
\* the head of an iteration: the one its last iteration started from, or
\* start when no iteration ran.
LastIterationStart == IF train_iteration = 0 THEN start ELSE iter_start_pos

=============================================================================
